---- MODULE Spec2Model ----
(***************************************************************************)
(* Clique Percolation Method (cpm.go).                                     *)
(*                                                                         *)
(* Nodes (GraphNode pointers) are modelled by their identity, an integer;   *)
(* node i of a graph built by the demo main carries the label "v<i>".      *)
(* The singly linked lists of the program (CliqueCandidate.next,           *)
(* Clique.next) are sequences, head first; a nil list is the empty         *)
(* sequence.  A []*GraphNode slice is a sequence of node identities.       *)
(***************************************************************************)
EXTENDS Integers, Sequences, FiniteSets, TLC

VARIABLES
    neighbors,         \* GraphNode.neighbors of every node of the graph
    k,                 \* the clique size
    pc,                \* position of the running procedure
    node_idx,          \* index of the main loop over the graph
    node_list,         \* argument of GetCliqueCandidates
    candidate_list,    \* main: candidate_list
    temp_clique_list,  \* main: temp_clique_list (source list of a merge)
    clique_list,       \* main: clique_list (destination list of a merge)
    community_graph,   \* main: community_graph
    calls,             \* number of AddNeighbor calls made on the graph
    query,             \* last IsConnected query and its result
    file_lines,        \* the lines of the graph definition file
    labels,            \* ParseGraphDefFile: labels of the nodes of its graph
    err,               \* ParseGraphDefFile: the error it returned
    anchors,           \* the nodes main has processed, when in any order
    stack,             \* activations of GetCliqueCandidates, the running last
    cursor,            \* position of the running loop in its list
    heap,              \* the GraphNode objects and the arrays made for slices
    lists              \* the lists of main as lists of slices into the heap

vars == <<neighbors, k, pc, node_idx, node_list, candidate_list,
          temp_clique_list, clique_list, community_graph, calls, query,
          file_lines, labels, err, anchors, stack, cursor, heap, lists>>

(***************************************************************************)
(* Bounds of the model.                                                    *)
(***************************************************************************)
MaxSymNodes == 4     \* symmetric input graphs have this many nodes
MaxDirNodes == 3     \* directed (possibly asymmetric) input graphs
MaxRot == 1          \* neighbour lists are rotated by 0..MaxRot places
MaxFreeLen == 3      \* length of the unrestricted neighbour lists
MaxK == 4            \* clique sizes 0..MaxK
MaxCandNodes == 4    \* nodes of the lists given to GetCliqueCandidates
MaxListLen == 4      \* length of the lists given to GetCliqueCandidates
MaxMergeNodes == 3   \* nodes of the cliques given to MergeCliques
MaxDestLen == 1      \* length of the destination list of a merge
MaxSrcLen == 2       \* length of the source list of a merge
MaxCGNodes == 4      \* nodes of the cliques given to CreateCommunityGraph
MaxCGK == 3          \* clique sizes 2..MaxCGK given to CreateCommunityGraph
MaxCGLen == 3        \* length of the list given to CreateCommunityGraph
MaxGraphNodes == 3   \* nodes of a graph under construction
MaxAddCalls == 3     \* number of AddNeighbor calls on it
MaxFileLines == 2    \* lines of a graph definition file
MaxMainK == 2        \* clique sizes 0..MaxMainK given to main with a file

(***************************************************************************)
(* Helpers on sequences and sets.                                          *)
(***************************************************************************)
Range(s) == {s[p] : p \in 1..Len(s)}

IsInjective(s) == \A p, q \in 1..Len(s) : s[p] = s[q] => p = q

Min(S) == CHOOSE x \in S : \A y \in S : x <= y

RECURSIVE SortedSeq(_)
SortedSeq(S) == IF S = {} THEN <<>>
                ELSE <<Min(S)>> \o SortedSeq(S \ {Min(S)})

Reverse(s) == [p \in 1..Len(s) |-> s[Len(s) + 1 - p]]

Rotate(s, r) == IF Len(s) = 0 THEN s
                ELSE [p \in 1..Len(s) |-> s[((p - 1 + r) % Len(s)) + 1]]

Arrange(S, rev, rot) ==
    LET s == Rotate(SortedSeq(S), rot) IN IF rev THEN Reverse(s) ELSE s

MemberSets(list) == {Range(list[p]) : p \in 1..Len(list)}

SeqOfSets(list) == [p \in 1..Len(list) |-> Range(list[p])]

NoDupSets(list) ==
    \A p, q \in 1..Len(list) : Range(list[p]) = Range(list[q]) => p = q

(***************************************************************************)
(* Graph Model: IsConnected, AddNeighbor.                                  *)
(***************************************************************************)
\* no error was returned (a nil error)
NoError == [kind |-> "nil", line |-> 0, label |-> <<>>]

\* no heap is kept: the lists hold the nodes themselves
NoHeap == [nodes |-> <<>>, made |-> <<>>]

NoLists == [candidate_list |-> <<>>, temp_clique_list |-> <<>>,
            clique_list |-> <<>>]

\* no IsConnected call has been made on the present graph
NoQuery == [cn |-> 0, sn |-> 0, result |-> FALSE]

\* as IsConnected, but it is cn.neighbors that is scanned, for sn
IsConnectedForward(cn, sn) ==
    \E p \in 1..Len(neighbors[cn]) : neighbors[cn][p] = sn

\* cn.IsConnected(sn): scans sn.neighbors for cn
IsConnected(cn, sn) ==
    \E p \in 1..Len(neighbors[sn]) : neighbors[sn][p] = cn

(***************************************************************************)
(* Candidate Generator.                                                    *)
(***************************************************************************)
\* as MatchesCandidate, but the node sequences are compared slot by slot
MatchesCandidateInOrder(cc, item) ==
    /\ Len(cc) > 0
    /\ Len(cc) = Len(item)
    /\ \A p \in 1..Len(cc) : item[p] = cc[p]

\* the inner loops of IsDuplicate for one list item: match_count reaches 0
MatchesCandidate(cc, item) ==
    /\ Len(cc) > 0
    /\ Cardinality({p \in 1..Len(cc) :
                       \E q \in 1..Len(item) : item[q] = cc[p]}) >= Len(cc)

IsDuplicate(cc, clist) ==
    \E x \in 1..Len(clist) : MatchesCandidate(cc, clist[x])

\* as SubstituteNode, but the removed node is put in the first slot only
RECURSIVE SubstituteNodeFirstSlot(_, _, _, _, _)
SubstituteNodeFirstSlot(node, clist, x, i, return_clique_list) ==
    IF x > Len(clist) THEN return_clique_list
    ELSE IF i > 1 \/ i > Len(clist[x])
         THEN SubstituteNodeFirstSlot(node, clist, x + 1, 1, return_clique_list)
         ELSE LET new_candidate == [clist[x] EXCEPT ![i] = node]
              IN  SubstituteNodeFirstSlot(node, clist, x, i + 1,
                     IF ~IsDuplicate(new_candidate, return_clique_list)
                     THEN <<new_candidate>> \o return_clique_list
                     ELSE return_clique_list)

\* the two nested loops of GetCliqueCandidates from (item x, slot i) onward
RECURSIVE SubstituteNode(_, _, _, _, _)
SubstituteNode(node, clist, x, i, return_clique_list) ==
    IF x > Len(clist) THEN return_clique_list
    ELSE IF i > Len(clist[x])
         THEN SubstituteNode(node, clist, x + 1, 1, return_clique_list)
         ELSE LET new_candidate == [clist[x] EXCEPT ![i] = node]
              IN  SubstituteNode(node, clist, x, i + 1,
                     IF ~IsDuplicate(new_candidate, return_clique_list)
                     THEN <<new_candidate>> \o return_clique_list
                     ELSE return_clique_list)

\* as GetCliqueCandidates, but a list of exactly k-1 nodes is rejected too
RECURSIVE GetCliqueCandidatesOffByOne(_, _)
GetCliqueCandidatesOffByOne(kk, nl) ==
    IF kk < 2 THEN <<>>
    ELSE IF Len(nl) <= kk - 1 THEN <<>>
    ELSE LET node == Head(nl)
             clist == GetCliqueCandidatesOffByOne(kk, Tail(nl))
         IN  SubstituteNode(node, clist, 1, 1, clist)

RECURSIVE GetCliqueCandidates(_, _)
GetCliqueCandidates(kk, nl) ==
    IF kk < 2 THEN <<>>
    ELSE IF Len(nl) < kk - 1 THEN <<>>
    ELSE IF Len(nl) = kk - 1 THEN << nl >>
    ELSE LET node == Head(nl)
             clist == GetCliqueCandidates(kk, Tail(nl))
         IN  SubstituteNode(node, clist, 1, 1, clist)

(***************************************************************************)
(* Clique Verifier.                                                        *)
(***************************************************************************)
\* as CandidateIsClique, but j stops at i + 1: only successive members tested
CandidateIsCliqueSuccessive(item) ==
    \A i \in 1..Len(item) : \A j \in (i + 1)..Len(item) :
        j = i + 1 => IsConnected(item[i], item[j])

\* the i/j loops of MakeCliqueList for one candidate
CandidateIsClique(item) ==
    \A i \in 1..Len(item) : \A j \in (i + 1)..Len(item) :
        IsConnected(item[i], item[j])

\* as MakeCliqueListFrom, but the examination node is the first member
RECURSIVE MakeCliqueListFromAnchorFirst(_, _, _, _)
MakeCliqueListFromAnchorFirst(cands, x, examination_node, acc) ==
    IF x > Len(cands) THEN acc
    ELSE MakeCliqueListFromAnchorFirst(cands, x + 1, examination_node,
            IF CandidateIsClique(cands[x])
            THEN << <<examination_node>> \o cands[x] >> \o acc
            ELSE acc)

RECURSIVE MakeCliqueListFrom(_, _, _, _)
MakeCliqueListFrom(cands, x, examination_node, acc) ==
    IF x > Len(cands) THEN acc
    ELSE MakeCliqueListFrom(cands, x + 1, examination_node,
            IF CandidateIsClique(cands[x])
            THEN <<Append(cands[x], examination_node)>> \o acc
            ELSE acc)

MakeCliqueList(cands, examination_node) ==
    MakeCliqueListFrom(cands, 1, examination_node, <<>>)

(***************************************************************************)
(* Clique Deduplicator / Merger.                                           *)
(***************************************************************************)
\* as MatchesClique, but the node sequences are compared position by position
MatchesCliqueInOrder(clique, item) ==
    /\ Len(item) = Len(clique)
    /\ Len(item) > 0
    /\ \A p \in 1..Len(item) : item[p] = clique[p]

\* the inner loops of NotRecorded for one list item: match_count reaches 0
MatchesClique(clique, item) ==
    /\ Len(item) = Len(clique)
    /\ Len(item) > 0
    /\ Cardinality({pq \in (1..Len(item)) \X (1..Len(clique)) :
                       item[pq[1]] = clique[pq[2]]}) >= Len(item)

\* as NotRecorded, but match_count starts one short
NotRecordedOneShort(clique, list) ==
    ~ \E x \in 1..Len(list) :
        /\ Len(list[x]) = Len(clique)
        /\ Cardinality({pq \in (1..Len(list[x])) \X (1..Len(clique)) :
                 list[x][pq[1]] = clique[pq[2]]}) >= Len(list[x]) - 1

\* as NotRecorded, but only the head of the list is examined
NotRecordedHeadOnly(clique, list) ==
    ~ (Len(list) > 0 /\ MatchesClique(clique, list[1]))

NotRecorded(clique, list) ==
    ~ \E x \in 1..Len(list) : MatchesClique(clique, list[x])

\* as MergeFrom, but every clique of src is appended
MergeFromUnchecked(dest, src, x) ==
    dest \o SubSeq(src, x, Len(src))

RECURSIVE MergeFrom(_, _, _)
MergeFrom(dest, src, x) ==
    IF x > Len(src) THEN dest
    ELSE MergeFrom(IF NotRecorded(src[x], dest)
                   THEN Append(dest, src[x]) ELSE dest, src, x + 1)

MergeCliques(dest_clique_list, src_clique_list) ==
    IF dest_clique_list = <<>> THEN <<>>
    ELSE MergeFrom(dest_clique_list, src_clique_list, 1)

(***************************************************************************)
(* Community Graph Builder.  A community node is a record; its neighbours  *)
(* are positions in the community graph.                                   *)
(***************************************************************************)
Label(v) == "v" \o ToString(v)

\* as CreateLabelFrom, but the separator precedes every label
RECURSIVE CreateLabelFromLeadingSep(_, _)
CreateLabelFromLeadingSep(nodes, i) ==
    IF i > Len(nodes) THEN ""
    ELSE ("," \o Label(nodes[i])) \o CreateLabelFromLeadingSep(nodes, i + 1)

RECURSIVE CreateLabelFrom(_, _)
CreateLabelFrom(nodes, i) ==
    IF i > Len(nodes) THEN ""
    ELSE (IF i = 1 THEN Label(nodes[i]) ELSE "," \o Label(nodes[i]))
         \o CreateLabelFrom(nodes, i + 1)

CreateLabel(nodes) == CreateLabelFrom(nodes, 1)

NewGraphNode(label, assoc_clique) ==
    [label |-> label, neighbors |-> <<>>, associated_clique |-> assoc_clique]

\* as Kminus1CommonNodes, but the count is compared with k
KCommonNodes(gn_clique, node_clique, kk) ==
    /\ kk >= 1
    /\ Cardinality({pq \in (1..Len(gn_clique)) \X (1..Len(node_clique)) :
                       gn_clique[pq[1]] = node_clique[pq[2]]}) >= kk

Kminus1CommonNodes(gn_clique, node_clique, kk) ==
    /\ kk - 1 >= 1
    /\ Cardinality({pq \in (1..Len(gn_clique)) \X (1..Len(node_clique)) :
                       gn_clique[pq[1]] = node_clique[pq[2]]}) >= kk - 1

\* as AddNeighborsFrom, but only the nodes after g in the graph are examined
RECURSIVE AddNeighborsFromLater(_, _, _, _)
AddNeighborsFromLater(graph, g, x, kk) ==
    IF x > Len(graph) THEN <<>>
    ELSE (IF g < x /\ Kminus1CommonNodes(graph[g].associated_clique,
                                         graph[x].associated_clique, kk)
          THEN <<x>> ELSE <<>>)
         \o AddNeighborsFromLater(graph, g, x + 1, kk)

\* as AddNeighborsFrom, but gn itself is not skipped
RECURSIVE AddNeighborsFromWithSelf(_, _, _, _)
AddNeighborsFromWithSelf(graph, g, x, kk) ==
    IF x > Len(graph) THEN <<>>
    ELSE (IF Kminus1CommonNodes(graph[g].associated_clique,
                                graph[x].associated_clique, kk)
          THEN <<x>> ELSE <<>>)
         \o AddNeighborsFromWithSelf(graph, g, x + 1, kk)

RECURSIVE AddNeighborsFrom(_, _, _, _)
AddNeighborsFrom(graph, g, x, kk) ==
    IF x > Len(graph) THEN <<>>
    ELSE (IF g # x /\ Kminus1CommonNodes(graph[g].associated_clique,
                                         graph[x].associated_clique, kk)
          THEN <<x>> ELSE <<>>)
         \o AddNeighborsFrom(graph, g, x + 1, kk)

AddNeighbors(graph, g, kk) == AddNeighborsFrom(graph, g, 1, kk)

CreateCommunityGraph(list, kk) ==
    IF list = <<>> THEN <<>>
    ELSE LET nodes == [p \in 1..Len(list) |->
                          NewGraphNode(CreateLabel(list[p]), list[p])]
         IN  [g \in 1..Len(nodes) |->
                 [nodes[g] EXCEPT !.neighbors = AddNeighbors(nodes, g, kk)]]

(***************************************************************************)
(* Graph definition files.  A line is a sequence of characters, each a     *)
(* one-character string; a label read from a file is the sequence of its   *)
(* characters.  The graph ParseGraphDefFile builds is the sequence of the  *)
(* labels of its nodes, in the order of their lines, with the neighbour    *)
(* lists as positions in it.  Lines are shorter than MAX_LINE_LEN and the  *)
(* file can be opened.                                                     *)
(***************************************************************************)
WordChars == {"a", "b"}        \* the characters of the class \w in use

SpaceChars == {" ", "\t"}      \* the characters of the class \s in use

IsWord(c) == c \in WordChars

IsSpace(c) == c \in SpaceChars

\* the first position from p on that holds no space: where a greedy \s* ends
SkipSpaces(line, p) ==
    Min({q \in p..(Len(line) + 1) : q = Len(line) + 1 \/ ~IsSpace(line[q])})

\* the first position from p on that holds no word character: end of \w+
SkipWord(line, p) ==
    Min({q \in p..(Len(line) + 1) : q = Len(line) + 1 \/ ~IsWord(line[q])})

\* `\s*(\w+):` attempted at position p; ColonAt is where the colon is
ColonAt(line, p) == SkipWord(line, SkipSpaces(line, p))

MatchesLabelAt(line, p) ==
    /\ ColonAt(line, p) > SkipSpaces(line, p)
    /\ ColonAt(line, p) <= Len(line)
    /\ line[ColonAt(line, p)] = ":"

NoMatch == [matched |-> FALSE, label |-> <<>>, neighbors_str |-> <<>>]

\* node_def_re.FindStringSubmatchIndex: the leftmost match of
\* `\s*(\w+):\s*(.+)`; the final (.+) needs one character, which the greedy
\* \s* before it gives back when only spaces follow the colon
node_def_re(line) ==
    LET starts == {p \in 1..Len(line) :
                      MatchesLabelAt(line, p) /\ ColonAt(line, p) < Len(line)}
    IN  IF starts = {} THEN NoMatch
        ELSE LET p     == Min(starts)
                 colon == ColonAt(line, p)
                 rest  == SkipSpaces(line, colon + 1)
             IN  [matched |-> TRUE,
                  label |-> SubSeq(line, SkipSpaces(line, p), colon - 1),
                  neighbors_str |->
                      IF rest <= Len(line)
                      THEN SubSeq(line, rest, Len(line))
                      ELSE SubSeq(line, Len(line), Len(line))]

\* node_no_neighbors_re.FindStringSubmatchIndex: `\s*(\w+):\s*`
node_no_neighbors_re(line) ==
    LET starts == {p \in 1..Len(line) : MatchesLabelAt(line, p)}
    IN  IF starts = {} THEN NoMatch
        ELSE LET p == Min(starts)
             IN  [matched |-> TRUE,
                  label |-> SubSeq(line, SkipSpaces(line, p),
                                   ColonAt(line, p) - 1),
                  neighbors_str |-> <<>>]

\* the loop over neighbors_str: some character is not a space
neighbors_defined(neighbors_str) ==
    \E i \in 1..Len(neighbors_str) : ~IsSpace(neighbors_str[i])

\* strings.Split(s, " "): the pieces between single blanks, empty ones kept
RECURSIVE Split(_)
Split(s) ==
    LET blanks == {i \in 1..Len(s) : s[i] = " "}
    IN  IF blanks = {} THEN <<s>>
        ELSE <<SubSeq(s, 1, Min(blanks) - 1)>>
             \o Split(SubSeq(s, Min(blanks) + 1, Len(s)))

\* GetNode: the first node of the graph with the label, 0 (nil) if none
GetNode(graph, label) ==
    LET hits == {i \in 1..Len(graph) : graph[i] = label}
    IN  IF hits = {} THEN 0 ELSE Min(hits)

\* the loop of ParseGraphDefFile over the lines of the file
RECURSIVE ReadLines(_, _, _, _)
ReadLines(lines, line_count, graph, neighbor_spec_list) ==
    IF line_count > Len(lines)
    THEN [graph |-> graph, neighbor_spec_list |-> neighbor_spec_list,
          error |-> NoError]
    ELSE LET line   == lines[line_count]
             slices == node_def_re(line)
         IN  IF slices.matched
             THEN \* append never yields nil: the duplicate branch is dead
                  ReadLines(lines, line_count + 1,
                     Append(graph, slices.label),
                     IF neighbors_defined(slices.neighbors_str)
                     THEN Append(neighbor_spec_list,
                             [node |-> Len(graph) + 1,
                              neighbor_str |-> slices.neighbors_str])
                     ELSE neighbor_spec_list)
             ELSE IF ~node_no_neighbors_re(line).matched
             THEN [graph |-> graph,
                   neighbor_spec_list |-> neighbor_spec_list,
                   error |-> [kind |-> "syntax error", line |-> line_count,
                              label |-> <<>>]]
             ELSE ReadLines(lines, line_count + 1,
                     Append(graph, node_no_neighbors_re(line).label),
                     neighbor_spec_list)

\* the inner loop of the resolution: the labels of one NeighborSpec
RECURSIVE ResolveLabels(_, _, _, _, _)
ResolveLabels(graph, nbrs, node, neighbor_labels, t) ==
    IF t > Len(neighbor_labels) THEN [neighbors |-> nbrs, error |-> NoError]
    ELSE LET nn == GetNode(graph, neighbor_labels[t])
         IN  IF nn = 0
             THEN [neighbors |-> nbrs,
                   error |-> [kind |-> "doesn't exist", line |-> 0,
                              label |-> neighbor_labels[t]]]
             ELSE ResolveLabels(graph, [nbrs EXCEPT ![node] = Append(@, nn)],
                                node, neighbor_labels, t + 1)

\* the outer loop of the resolution, over neighbor_spec_list
RECURSIVE ResolveSpecs(_, _, _, _)
ResolveSpecs(graph, nbrs, neighbor_spec_list, x) ==
    IF x > Len(neighbor_spec_list)
    THEN [neighbors |-> nbrs, error |-> NoError]
    ELSE LET ns == neighbor_spec_list[x]
             r  == ResolveLabels(graph, nbrs, ns.node,
                                 Split(ns.neighbor_str), 1)
         IN  IF r.error # NoError THEN r
             ELSE ResolveSpecs(graph, r.neighbors, neighbor_spec_list, x + 1)

ParseGraphDefFile(lines) ==
    LET read  == ReadLines(lines, 1, <<>>, <<>>)
        bare  == [i \in 1..Len(read.graph) |-> <<>>]
        edges == ResolveSpecs(read.graph, bare, read.neighbor_spec_list, 1)
    IN  IF read.error # NoError
        THEN [labels |-> read.graph, neighbors |-> bare, error |-> read.error]
        ELSE [labels |-> read.graph, neighbors |-> edges.neighbors,
              error |-> edges.error]

(***************************************************************************)
(* Input graphs.                                                           *)
(***************************************************************************)
\* the 10-node model graph as wired by the demo main
ModelGraph ==
    <<  <<2, 3>>, <<1, 3>>, <<1, 2, 4, 5>>, <<3, 5, 6, 7>>, <<3, 4, 6, 7>>,
        <<4, 5, 7, 8>>, <<4, 5, 6, 8>>, <<6, 7, 9, 10>>, <<8, 10>>, <<8, 9>> >>

SymPairs == {ab \in (1..MaxSymNodes) \X (1..MaxSymNodes) : ab[1] < ab[2]}

DirPairs == {ab \in (1..MaxDirNodes) \X (1..MaxDirNodes) : ab[1] # ab[2]}

SymGraph(E, rev, rot) ==
    [v \in 1..MaxSymNodes |->
        Arrange({u \in 1..MaxSymNodes : <<u, v>> \in E \/ <<v, u>> \in E},
                rev, rot)]

DirGraph(A, rev, rot) ==
    [v \in 1..MaxDirNodes |->
        Arrange({u \in 1..MaxDirNodes : <<v, u>> \in A}, rev, rot)]

\* two nodes with arbitrary neighbour lists: self-loops, repeated entries
FreeNodes == {1, 2}

FreeGraphs == [FreeNodes -> UNION {[1..m -> FreeNodes] : m \in 0..MaxFreeLen}]

InputGraphs ==
    {SymGraph(E, rev, rot) :
        E \in SUBSET SymPairs, rev \in BOOLEAN, rot \in 0..MaxRot}
    \cup {DirGraph(A, rev, rot) :
        A \in SUBSET DirPairs, rev \in BOOLEAN, rot \in 0..MaxRot}
    \cup FreeGraphs
    \cup {ModelGraph}

Nodes == DOMAIN neighbors

(***************************************************************************)
(* main: the loop over the graph, then the community graph.                *)
(***************************************************************************)
Init ==
    /\ neighbors \in InputGraphs
    /\ k \in 0..MaxK
    /\ pc = "loop"
    /\ node_idx = 1
    /\ node_list = <<>>
    /\ candidate_list = <<>>
    /\ temp_clique_list = <<>>
    /\ clique_list = <<>>
    /\ community_graph = <<>>
    /\ calls = 0
    /\ query = NoQuery
    /\ file_lines = <<>>
    /\ labels = <<>>
    /\ err = NoError
    /\ anchors = <<>>
    /\ stack = <<>>
    /\ cursor = 1
    /\ heap = NoHeap
    /\ lists = NoLists

\* one iteration of "for _, node := range graph"
MainLoopBody ==
    /\ pc = "loop"
    /\ node_idx <= Len(neighbors)
    /\ LET node  == node_idx
           cands == GetCliqueCandidates(k, neighbors[node])
           temp  == MakeCliqueList(cands, node)
       IN  /\ candidate_list' = cands
           /\ IF cands # <<>>
              THEN /\ temp_clique_list' = temp
                   /\ clique_list' = IF clique_list = <<>> THEN temp
                                     ELSE MergeCliques(clique_list, temp)
              ELSE /\ temp_clique_list' = <<>>
                   /\ clique_list' = clique_list
    /\ node_idx' = node_idx + 1
    /\ UNCHANGED <<file_lines, labels, err, anchors, stack, cursor, heap, lists>>
    /\ UNCHANGED <<neighbors, k, pc, node_list, community_graph, calls, query>>

\* the loop is over: community_graph := CreateCommunityGraph(clique_list, k)
MainCommunity ==
    /\ pc = "loop"
    /\ node_idx > Len(neighbors)
    /\ community_graph' = CreateCommunityGraph(clique_list, k)
    /\ pc' = "done"
    /\ UNCHANGED <<file_lines, labels, err, anchors, stack, cursor, heap, lists>>
    /\ UNCHANGED <<neighbors, k, node_idx, node_list, candidate_list,
                   temp_clique_list, clique_list, calls, query>>

Next == MainLoopBody \/ MainCommunity

Spec == Init /\ [][Next]_vars

(***************************************************************************)
(* Bounded input sets of the procedures run on their own.                  *)
(***************************************************************************)
SeqsUpTo(S, n) == UNION {[1..m -> S] : m \in 0..n}

\* the sets of kk nodes among the nodes 1..n
KSubsets(n, kk) == {S \in SUBSET (1..n) : Cardinality(S) = kk}

\* Clique values of kk distinct nodes among 1..n, in ascending order
AscCliques(n, kk) == {SortedSeq(S) : S \in KSubsets(n, kk)}

\* the same, in ascending and in descending order
BothCliques(n, kk) ==
    {Arrange(S, rev, 0) : S \in KSubsets(n, kk), rev \in BOOLEAN}

(***************************************************************************)
(* GetCliqueCandidates run on its own.                                     *)
(***************************************************************************)
InitCand ==
    /\ k \in 0..MaxK
    /\ node_list \in SeqsUpTo(1..MaxCandNodes, MaxListLen)
    /\ pc = "call"
    /\ neighbors = <<>>
    /\ node_idx = 1
    /\ candidate_list = <<>>
    /\ temp_clique_list = <<>>
    /\ clique_list = <<>>
    /\ community_graph = <<>>
    /\ calls = 0
    /\ query = NoQuery
    /\ file_lines = <<>>
    /\ labels = <<>>
    /\ err = NoError
    /\ anchors = <<>>
    /\ stack = <<>>
    /\ cursor = 1
    /\ heap = NoHeap
    /\ lists = NoLists

CallGetCliqueCandidates ==
    /\ pc = "call"
    /\ candidate_list' = GetCliqueCandidates(k, node_list)
    /\ pc' = "return"
    /\ UNCHANGED <<file_lines, labels, err, anchors, stack, cursor, heap, lists>>
    /\ UNCHANGED <<neighbors, k, node_idx, node_list, temp_clique_list,
                   clique_list, community_graph, calls, query>>

NextCand == CallGetCliqueCandidates

SpecCand == InitCand /\ [][NextCand]_vars

(***************************************************************************)
(* MergeCliques run on its own: clique_list = MergeCliques(clique_list,    *)
(* temp_clique_list), called twice with the same source list.              *)
(***************************************************************************)
InitMerge ==
    /\ k \in 2..MaxMergeNodes
    /\ clique_list \in SeqsUpTo(AscCliques(MaxMergeNodes, k), MaxDestLen)
    /\ temp_clique_list \in SeqsUpTo(BothCliques(MaxMergeNodes, k), MaxSrcLen)
    /\ pc = "merge"
    /\ neighbors = <<>>
    /\ node_idx = 1
    /\ node_list = <<>>
    /\ candidate_list = <<>>
    /\ community_graph = <<>>
    /\ calls = 0
    /\ query = NoQuery
    /\ file_lines = <<>>
    /\ labels = <<>>
    /\ err = NoError
    /\ anchors = <<>>
    /\ stack = <<>>
    /\ cursor = 1
    /\ heap = NoHeap
    /\ lists = NoLists

\* the first call (pc = "merge") and the second, with the same source list
CallMergeCliques ==
    /\ pc \in {"merge", "merged"}
    /\ clique_list' = MergeCliques(clique_list, temp_clique_list)
    /\ pc' = IF pc = "merge" THEN "merged" ELSE "merged_again"
    /\ UNCHANGED <<file_lines, labels, err, anchors, stack, cursor, heap, lists>>
    /\ UNCHANGED <<neighbors, k, node_idx, node_list, candidate_list,
                   temp_clique_list, community_graph, calls, query>>

NextMerge == CallMergeCliques

SpecMerge == InitMerge /\ [][NextMerge]_vars

(***************************************************************************)
(* CreateCommunityGraph run on its own.                                    *)
(***************************************************************************)
InitCG ==
    /\ k \in 2..MaxCGK
    /\ \E rev \in BOOLEAN :
          \E sets \in SeqsUpTo(KSubsets(MaxCGNodes, k), MaxCGLen) :
             clique_list = [p \in 1..Len(sets) |-> Arrange(sets[p], rev, 0)]
    /\ pc = "call"
    /\ neighbors = <<>>
    /\ node_idx = 1
    /\ node_list = <<>>
    /\ candidate_list = <<>>
    /\ temp_clique_list = <<>>
    /\ community_graph = <<>>
    /\ calls = 0
    /\ query = NoQuery
    /\ file_lines = <<>>
    /\ labels = <<>>
    /\ err = NoError
    /\ anchors = <<>>
    /\ stack = <<>>
    /\ cursor = 1
    /\ heap = NoHeap
    /\ lists = NoLists

CallCreateCommunityGraph ==
    /\ pc = "call"
    /\ community_graph' = CreateCommunityGraph(clique_list, k)
    /\ pc' = "return"
    /\ UNCHANGED <<file_lines, labels, err, anchors, stack, cursor, heap, lists>>
    /\ UNCHANGED <<neighbors, k, node_idx, node_list, candidate_list,
                   temp_clique_list, clique_list, calls, query>>

NextCG == CallCreateCommunityGraph

SpecCG == InitCG /\ [][NextCG]_vars

(***************************************************************************)
(* The Graph Model on its own: a graph is built by AddNeighbor calls and   *)
(* queried by IsConnected.                                                 *)
(***************************************************************************)
InitGraph ==
    /\ neighbors = [v \in 1..MaxGraphNodes |-> <<>>]
    /\ query = NoQuery
    /\ file_lines = <<>>
    /\ labels = <<>>
    /\ err = NoError
    /\ anchors = <<>>
    /\ stack = <<>>
    /\ cursor = 1
    /\ heap = NoHeap
    /\ lists = NoLists
    /\ calls = 0
    /\ pc = "graph"
    /\ k = 0
    /\ node_idx = 1
    /\ node_list = <<>>
    /\ candidate_list = <<>>
    /\ temp_clique_list = <<>>
    /\ clique_list = <<>>
    /\ community_graph = <<>>

\* as AddNeighbor, but the reverse edge is added as well
AddNeighborSymmetric(gn, n) ==
    /\ pc = "graph"
    /\ calls < MaxAddCalls
    /\ neighbors' = [v \in DOMAIN neighbors |->
                        (IF v = gn THEN Append(neighbors[v], n)
                                   ELSE neighbors[v])
                        \o (IF v = n THEN <<gn>> ELSE <<>>)]
    /\ calls' = calls + 1
    /\ query' = NoQuery
    /\ UNCHANGED <<file_lines, labels, err, anchors, stack, cursor, heap, lists>>
    /\ UNCHANGED <<k, pc, node_idx, node_list, candidate_list,
                   temp_clique_list, clique_list, community_graph>>

\* AddNeighbor(gn, n): gn.neighbors = append(gn.neighbors, n)
AddNeighbor(gn, n) ==
    /\ pc = "graph"
    /\ calls < MaxAddCalls
    /\ neighbors' = [neighbors EXCEPT ![gn] = Append(@, n)]
    /\ calls' = calls + 1
    /\ query' = NoQuery
    /\ UNCHANGED <<file_lines, labels, err, anchors, stack, cursor, heap, lists>>
    /\ UNCHANGED <<k, pc, node_idx, node_list, candidate_list,
                   temp_clique_list, clique_list, community_graph>>

\* a call cn.IsConnected(sn); its result is kept with its arguments
CallIsConnected(cn, sn) ==
    /\ pc = "graph"
    /\ query' = [cn |-> cn, sn |-> sn, result |-> IsConnected(cn, sn)]
    /\ UNCHANGED <<file_lines, labels, err, anchors, stack, cursor, heap, lists>>
    /\ UNCHANGED <<neighbors, k, pc, node_idx, node_list, candidate_list,
                   temp_clique_list, clique_list, community_graph, calls>>

NextGraph ==
    \/ \E gn, n \in 1..MaxGraphNodes : AddNeighbor(gn, n)
    \/ \E cn, sn \in 1..MaxGraphNodes : CallIsConnected(cn, sn)

SpecGraph == InitGraph /\ [][NextGraph]_vars

(***************************************************************************)
(* main from its call of ParseGraphDefFile on: the file is parsed, then    *)
(* the graph is printed and the loop and the community graph follow, or    *)
(* the error is printed and main returns.  The command line has its one    *)
(* file argument.                                                          *)
(***************************************************************************)
\* well-formed lines: "l:", "l: m", "l: m n"
RegularLines ==
    {<<l, ":">> : l \in WordChars}
    \cup {<<l, ":", " ", m>> : l \in WordChars, m \in WordChars}
    \cup {<<l, ":", " ", m, " ", n>> :
             l \in WordChars, m \in WordChars, n \in WordChars}

\* blanks in other places, a tab, text before the label, no colon, nothing
OddLines ==
    { <<"a", ":", " ">>,
      <<" ", "a", ":", "b">>,
      <<"a", ":", "b", " ">>,
      <<"a", ":", "b", " ", " ", "a">>,
      <<"a", ":", "b", "\t", "a">>,
      <<"a", " ", "b", ":">>,
      <<"a", "b", ":", "a">>,
      <<"-", "a", ":">>,
      <<"a", " ", "b">>,
      <<>> }

FileLines == RegularLines \cup OddLines

InitMain ==
    /\ file_lines \in SeqsUpTo(FileLines, MaxFileLines)
    /\ k \in 0..MaxMainK
    /\ pc = "parse"
    /\ neighbors = <<>>
    /\ labels = <<>>
    /\ err = NoError
    /\ anchors = <<>>
    /\ stack = <<>>
    /\ cursor = 1
    /\ heap = NoHeap
    /\ lists = NoLists
    /\ node_idx = 1
    /\ node_list = <<>>
    /\ candidate_list = <<>>
    /\ temp_clique_list = <<>>
    /\ clique_list = <<>>
    /\ community_graph = <<>>
    /\ calls = 0
    /\ query = NoQuery

\* graph, err := ParseGraphDefFile(...); on an error main prints it and
\* returns, otherwise it prints k and the graph and enters the loop
MainParse ==
    /\ pc = "parse"
    /\ LET r == ParseGraphDefFile(file_lines)
       IN  /\ labels' = r.labels
           /\ neighbors' = r.neighbors
           /\ err' = r.error
           /\ pc' = IF r.error # NoError THEN "exit" ELSE "loop"
    /\ UNCHANGED <<file_lines, k, node_idx, node_list, candidate_list,
                   temp_clique_list, clique_list, community_graph, calls,
                   query, anchors, stack, cursor, heap, lists>>

NextMain ==
    \/ MainParse
    \/ MainLoopBody
    \/ MainCommunity

SpecMain == InitMain /\ [][NextMain]_vars

(***************************************************************************)
(* main with the nodes of the graph in any order: the range loop follows   *)
(* the order of the graph slice, which is the order of the lines of the    *)
(* file and not a property of the nodes.                                   *)
(***************************************************************************)
\* symmetric graphs, and the two-node graphs with arbitrary lists
OrderGraphs ==
    {SymGraph(E, rev, rot) :
        E \in SUBSET SymPairs, rev \in BOOLEAN, rot \in 0..MaxRot}
    \cup FreeGraphs

InitOrder ==
    /\ neighbors \in OrderGraphs
    /\ k \in 0..MaxK
    /\ pc = "loop"
    /\ node_idx = 1
    /\ anchors = <<>>
    /\ stack = <<>>
    /\ cursor = 1
    /\ heap = NoHeap
    /\ lists = NoLists
    /\ node_list = <<>>
    /\ candidate_list = <<>>
    /\ temp_clique_list = <<>>
    /\ clique_list = <<>>
    /\ community_graph = <<>>
    /\ calls = 0
    /\ query = NoQuery
    /\ file_lines = <<>>
    /\ labels = <<>>
    /\ err = NoError

\* the body of the loop of main for one node
LoopBody(list, node) ==
    LET cands == GetCliqueCandidates(k, neighbors[node])
        temp  == MakeCliqueList(cands, node)
    IN  IF cands = <<>> THEN list
        ELSE IF list = <<>> THEN temp
        ELSE MergeCliques(list, temp)

\* one iteration of the loop, for a node that has not been processed
MainLoopBodyAt(node) ==
    /\ pc = "loop"
    /\ node \notin Range(anchors)
    /\ anchors' = Append(anchors, node)
    /\ node_idx' = node_idx + 1
    /\ candidate_list' = GetCliqueCandidates(k, neighbors[node])
    /\ temp_clique_list' = MakeCliqueList(candidate_list', node)
    /\ clique_list' = LoopBody(clique_list, node)
    /\ UNCHANGED <<neighbors, k, pc, node_list, community_graph, calls, query,
                   file_lines, labels, err, stack, cursor, heap, lists>>

NextOrder ==
    \/ \E node \in Nodes : MainLoopBodyAt(node)
    \/ MainCommunity

SpecOrder == InitOrder /\ [][NextOrder]_vars

(***************************************************************************)
(* main step by step, from its entry to its return: every call of          *)
(* GetCliqueCandidates is an activation on the stack, and every pass of a  *)
(* loop of GetCliqueCandidates, MakeCliqueList, MergeCliques and           *)
(* CreateCommunityGraph is one step.  The loops over the members of one    *)
(* item (IsDuplicate, the i/j loops of MakeCliqueList, NotRecorded,        *)
(* CreateLabel, AddNeighbors) range over a fixed slice and are one step.   *)
(***************************************************************************)
LiveGraphs == FreeGraphs \cup {ModelGraph}

InitLive ==
    /\ pc = "start"
    /\ neighbors = <<>>
    /\ k = 0
    /\ node_idx = 1
    /\ node_list = <<>>
    /\ candidate_list = <<>>
    /\ temp_clique_list = <<>>
    /\ clique_list = <<>>
    /\ community_graph = <<>>
    /\ calls = 0
    /\ query = NoQuery
    /\ file_lines = <<>>
    /\ labels = <<>>
    /\ err = NoError
    /\ anchors = <<>>
    /\ stack = <<>>
    /\ cursor = 1
    /\ heap = NoHeap
    /\ lists = NoLists

\* the activation of a call GetCliqueCandidates(k, nl), at its entry
NewActivation(nl) ==
    [node_list |-> nl, at |-> "entry", clique_list |-> <<>>,
     return_clique_list |-> <<>>, x |-> 1, i |-> 1]

\* the running activation
Top == stack[Len(stack)]

\* main has its graph and its k
MainStart ==
    /\ pc = "start"
    /\ neighbors' \in LiveGraphs
    /\ k' \in 0..MaxK
    /\ pc' = "loop"
    /\ UNCHANGED <<node_idx, node_list, candidate_list, temp_clique_list,
                   clique_list, community_graph, calls, query,
                   file_lines, labels, err, anchors, stack, cursor,
                   heap, lists>>

\* "for _, node := range graph": the call GetCliqueCandidates(k,
\* node.neighbors) of the next node
LiveCall ==
    /\ pc = "loop"
    /\ node_idx <= Len(neighbors)
    /\ stack' = <<NewActivation(neighbors[node_idx])>>
    /\ pc' = "candidates"
    /\ cursor' = 1
    /\ temp_clique_list' = <<>>
    /\ UNCHANGED <<neighbors, k, node_idx, node_list, candidate_list,
                   clique_list, community_graph, calls, query,
                   file_lines, labels, err, anchors, heap, lists>>

\* "return list" of the running activation: the caller, main or the
\* activation below, goes on with the list
ReturnCandidates(list) ==
    IF Len(stack) = 1
    THEN /\ stack' = <<>>
         /\ candidate_list' = list
         /\ pc' = "verify"
    ELSE /\ stack' = [SubSeq(stack, 1, Len(stack) - 1)
                        EXCEPT ![Len(stack) - 1] =
                            [@ EXCEPT !.at = "loop",
                                      !.clique_list = list,
                                      !.return_clique_list = list,
                                      !.x = 1, !.i = 1]]
         /\ UNCHANGED <<candidate_list, pc>>

\* the entry of GetCliqueCandidates: the three returns, or the recursive
\* call on node_list[1:]
CandidatesEntry ==
    /\ pc = "candidates"
    /\ Top.at = "entry"
    /\ IF k < 2 \/ Len(Top.node_list) < k - 1
       THEN ReturnCandidates(<<>>)
       ELSE IF Len(Top.node_list) = k - 1
       THEN ReturnCandidates(<< Top.node_list >>)
       ELSE /\ stack' = Append([stack EXCEPT ![Len(stack)].at = "call"],
                               NewActivation(Tail(Top.node_list)))
            /\ UNCHANGED <<candidate_list, pc>>
    /\ UNCHANGED <<neighbors, k, node_idx, node_list, temp_clique_list,
                   clique_list, community_graph, calls, query,
                   file_lines, labels, err, anchors, cursor,
                   heap, lists>>

\* as CandidatesLoop, but slot i stays where it is when the new candidate
\* is a duplicate
CandidatesLoopStaysOnDuplicate ==
    /\ pc = "candidates"
    /\ Top.at = "loop"
    /\ IF Top.x > Len(Top.clique_list)
       THEN ReturnCandidates(Top.return_clique_list)
       ELSE /\ IF Top.i > Len(Top.clique_list[Top.x])
               THEN stack' = [stack EXCEPT ![Len(stack)].x = @ + 1,
                                           ![Len(stack)].i = 1]
               ELSE LET new_candidate ==
                            [Top.clique_list[Top.x]
                                EXCEPT ![Top.i] = Head(Top.node_list)]
                    IN  IF ~IsDuplicate(new_candidate, Top.return_clique_list)
                        THEN stack' =
                               [stack EXCEPT
                                  ![Len(stack)].i = @ + 1,
                                  ![Len(stack)].return_clique_list =
                                      <<new_candidate>> \o @]
                        ELSE stack' = stack
            /\ UNCHANGED <<candidate_list, pc>>
    /\ UNCHANGED <<neighbors, k, node_idx, node_list, temp_clique_list,
                   clique_list, community_graph, calls, query,
                   file_lines, labels, err, anchors, cursor,
                   heap, lists>>

\* one pass of the loops of GetCliqueCandidates over the list the recursive
\* call returned: item x is over, or slot i of item x gets the removed node
CandidatesLoop ==
    /\ pc = "candidates"
    /\ Top.at = "loop"
    /\ IF Top.x > Len(Top.clique_list)
       THEN ReturnCandidates(Top.return_clique_list)
       ELSE /\ IF Top.i > Len(Top.clique_list[Top.x])
               THEN stack' = [stack EXCEPT ![Len(stack)].x = @ + 1,
                                           ![Len(stack)].i = 1]
               ELSE LET new_candidate ==
                            [Top.clique_list[Top.x]
                                EXCEPT ![Top.i] = Head(Top.node_list)]
                    IN  stack' =
                          [stack EXCEPT
                             ![Len(stack)].i = @ + 1,
                             ![Len(stack)].return_clique_list =
                                 IF ~IsDuplicate(new_candidate,
                                                 Top.return_clique_list)
                                 THEN <<new_candidate>> \o @
                                 ELSE @]
            /\ UNCHANGED <<candidate_list, pc>>
    /\ UNCHANGED <<neighbors, k, node_idx, node_list, temp_clique_list,
                   clique_list, community_graph, calls, query,
                   file_lines, labels, err, anchors, cursor,
                   heap, lists>>

\* "if candidate_list != nil" and the loop of MakeCliqueList over the
\* candidates; after it, "if clique_list == nil" of main
LiveVerify ==
    /\ pc = "verify"
    /\ IF candidate_list = <<>>
       THEN /\ node_idx' = node_idx + 1
            /\ pc' = "loop"
            /\ UNCHANGED <<temp_clique_list, clique_list, cursor>>
       ELSE IF cursor <= Len(candidate_list)
       THEN /\ temp_clique_list' =
                  IF CandidateIsClique(candidate_list[cursor])
                  THEN <<Append(candidate_list[cursor], node_idx)>>
                          \o temp_clique_list
                  ELSE temp_clique_list
            /\ cursor' = cursor + 1
            /\ UNCHANGED <<node_idx, pc, clique_list>>
       ELSE IF clique_list = <<>>
       THEN /\ clique_list' = temp_clique_list
            /\ node_idx' = node_idx + 1
            /\ pc' = "loop"
            /\ UNCHANGED <<temp_clique_list, cursor>>
       ELSE /\ pc' = "merging"
            /\ cursor' = 1
            /\ UNCHANGED <<node_idx, temp_clique_list, clique_list>>
    /\ UNCHANGED <<neighbors, k, node_list, candidate_list, community_graph,
                   calls, query, file_lines, labels, err, anchors, stack,
                   heap, lists>>

\* one pass of the loop of MergeCliques over the source list; after it the
\* iteration of main is over
LiveMerge ==
    /\ pc = "merging"
    /\ IF cursor <= Len(temp_clique_list)
       THEN /\ clique_list' =
                  IF NotRecorded(temp_clique_list[cursor], clique_list)
                  THEN Append(clique_list, temp_clique_list[cursor])
                  ELSE clique_list
            /\ cursor' = cursor + 1
            /\ UNCHANGED <<node_idx, pc>>
       ELSE /\ node_idx' = node_idx + 1
            /\ pc' = "loop"
            /\ UNCHANGED <<clique_list, cursor>>
    /\ UNCHANGED <<neighbors, k, node_list, candidate_list, temp_clique_list,
                   community_graph, calls, query, file_lines, labels, err,
                   anchors, stack, heap, lists>>

\* the loop of main is over: CreateCommunityGraph returns nil for a nil
\* list, and starts its first loop otherwise
LiveCommunity ==
    /\ pc = "loop"
    /\ node_idx > Len(neighbors)
    /\ community_graph' = <<>>
    /\ cursor' = 1
    /\ pc' = IF clique_list = <<>> THEN "done" ELSE "nodes"
    /\ UNCHANGED <<neighbors, k, node_idx, node_list, candidate_list,
                   temp_clique_list, clique_list, calls, query,
                   file_lines, labels, err, anchors, stack,
                   heap, lists>>

\* one pass of the first loop of CreateCommunityGraph: a node per clique
LiveNodes ==
    /\ pc = "nodes"
    /\ IF cursor <= Len(clique_list)
       THEN /\ community_graph' =
                  Append(community_graph,
                         NewGraphNode(CreateLabel(clique_list[cursor]),
                                      clique_list[cursor]))
            /\ cursor' = cursor + 1
            /\ pc' = pc
       ELSE /\ pc' = "edges"
            /\ cursor' = 1
            /\ community_graph' = community_graph
    /\ UNCHANGED <<neighbors, k, node_idx, node_list, candidate_list,
                   temp_clique_list, clique_list, calls, query,
                   file_lines, labels, err, anchors, stack,
                   heap, lists>>

\* one pass of the second loop of CreateCommunityGraph: AddNeighbors of a
\* node; after the last node main returns
LiveEdges ==
    /\ pc = "edges"
    /\ IF cursor <= Len(community_graph)
       THEN /\ community_graph' =
                  [community_graph EXCEPT ![cursor].neighbors =
                       AddNeighbors(community_graph, cursor, k)]
            /\ cursor' = cursor + 1
            /\ pc' = pc
       ELSE /\ pc' = "done"
            /\ UNCHANGED <<community_graph, cursor>>
    /\ UNCHANGED <<neighbors, k, node_idx, node_list, candidate_list,
                   temp_clique_list, clique_list, calls, query,
                   file_lines, labels, err, anchors, stack,
                   heap, lists>>

NextLive ==
    \/ MainStart
    \/ LiveCall
    \/ CandidatesEntry
    \/ CandidatesLoop
    \/ LiveVerify
    \/ LiveMerge
    \/ LiveCommunity
    \/ LiveNodes
    \/ LiveEdges

\* main is a sequential program: a step that can be taken is taken
SpecLive == InitLive /\ [][NextLive]_vars /\ WF_vars(NextLive)

(***************************************************************************)
(* main on a heap.  A GraphNode is an object of heap.nodes, addressed by   *)
(* its position: the nodes of the original graph come first, in the order  *)
(* of the graph.  A []*GraphNode slice is a window (low, len) on a backing *)
(* array, which is the neighbors array of a node (node > 0) or an array    *)
(* allocated by make (made > 0); two slices on one array share its         *)
(* elements, and a store through one is seen through the other.            *)
(***************************************************************************)
\* the heap main starts with: the graph the parser built
GraphHeap(g) ==
    [nodes |-> [n \in 1..Len(g) |->
                   [label |-> Label(n), neighbors |-> g[n],
                    associated_clique |-> <<>>]],
     made  |-> <<>>]

\* node.neighbors as a slice
NeighborsOf(h, n) ==
    [node |-> n, made |-> 0, low |-> 0, len |-> Len(h.nodes[n].neighbors)]

Backing(h, s) ==
    IF s.node > 0 THEN h.nodes[s.node].neighbors ELSE h.made[s.made]

\* the elements seen through slice s
Elems(h, s) == [p \in 1..s.len |-> Backing(h, s)[s.low + p]]

ElemsOfAll(h, list) == [q \in 1..Len(list) |-> Elems(h, list[q])]

\* s[p - 1] = v
Store(h, s, p, v) ==
    IF s.node > 0
    THEN [h EXCEPT !.nodes[s.node].neighbors[s.low + p] = v]
    ELSE [h EXCEPT !.made[s.made][s.low + p] = v]

\* make([]*GraphNode, n, n)
MakeSlice(h, n) ==
    [heap  |-> [h EXCEPT !.made = Append(@, [p \in 1..n |-> 0])],
     slice |-> [node |-> 0, made |-> Len(h.made) + 1, low |-> 0, len |-> n]]

\* s[1:]
FromSecond(s) == [s EXCEPT !.low = @ + 1, !.len = @ - 1]

\* as CopyNodes, but new_candidate.nodes = item.nodes: the same array
ShareNodes(h, item) == [heap |-> h, slice |-> item]

\* new_candidate.nodes = make(...), then the copy of item.nodes into it
CopyNodes(h, item) ==
    LET m == MakeSlice(h, item.len)
    IN  [heap  |-> [m.heap EXCEPT !.made[m.slice.made] = Elems(h, item)],
         slice |-> m.slice]

RECURSIVE SubstituteNodeOnHeap(_, _, _, _, _, _)
SubstituteNodeOnHeap(h, node, clist, x, i, return_clique_list) ==
    IF x > Len(clist) THEN [heap |-> h, list |-> return_clique_list]
    ELSE IF i > clist[x].len
         THEN SubstituteNodeOnHeap(h, node, clist, x + 1, 1,
                                   return_clique_list)
         ELSE LET c  == CopyNodes(h, clist[x])
                  h2 == Store(c.heap, c.slice, i, node)
              IN  SubstituteNodeOnHeap(h2, node, clist, x, i + 1,
                     IF ~IsDuplicate(Elems(h2, c.slice),
                                     ElemsOfAll(h2, return_clique_list))
                     THEN <<c.slice>> \o return_clique_list
                     ELSE return_clique_list)

RECURSIVE GetCliqueCandidatesOnHeap(_, _, _)
GetCliqueCandidatesOnHeap(h, kk, nl) ==
    IF kk < 2 THEN [heap |-> h, list |-> <<>>]
    ELSE IF nl.len < kk - 1 THEN [heap |-> h, list |-> <<>>]
    ELSE IF nl.len = kk - 1 THEN [heap |-> h, list |-> << nl >>]
    ELSE LET node == Elems(h, nl)[1]
             rec  == GetCliqueCandidatesOnHeap(h, kk, FromSecond(nl))
         IN  SubstituteNodeOnHeap(rec.heap, node, rec.list, 1, 1, rec.list)

\* cn.IsConnected(sn) on the heap
IsConnectedOnHeap(h, cn, sn) ==
    \E p \in 1..Len(h.nodes[sn].neighbors) : h.nodes[sn].neighbors[p] = cn

CandidateIsCliqueOnHeap(h, item) ==
    \A i \in 1..Len(item) : \A j \in (i + 1)..Len(item) :
        IsConnectedOnHeap(h, item[i], item[j])

RECURSIVE MakeCliqueListOnHeap(_, _, _, _, _)
MakeCliqueListOnHeap(h, cands, x, examination_node, clist) ==
    IF x > Len(cands) THEN [heap |-> h, list |-> clist]
    ELSE IF CandidateIsCliqueOnHeap(h, Elems(h, cands[x]))
         THEN LET m  == MakeSlice(h, cands[x].len + 1)
                  h2 == [m.heap EXCEPT !.made[m.slice.made] =
                            Append(Elems(h, cands[x]), 0)]
                  h3 == Store(h2, m.slice, cands[x].len + 1,
                              examination_node)
              IN  MakeCliqueListOnHeap(h3, cands, x + 1, examination_node,
                                       <<m.slice>> \o clist)
         ELSE MakeCliqueListOnHeap(h, cands, x + 1, examination_node, clist)

\* MergeCliques: new_clique.nodes = clique.nodes shares the array; nothing
\* is stored
RECURSIVE MergeFromOnHeap(_, _, _, _)
MergeFromOnHeap(h, dest, src, x) ==
    IF x > Len(src) THEN dest
    ELSE MergeFromOnHeap(h,
            IF NotRecorded(Elems(h, src[x]), ElemsOfAll(h, dest))
            THEN Append(dest, src[x]) ELSE dest,
            src, x + 1)

MergeCliquesOnHeap(h, dest_clique_list, src_clique_list) ==
    IF dest_clique_list = <<>> THEN <<>>
    ELSE MergeFromOnHeap(h, dest_clique_list, src_clique_list, 1)

\* the cliques the nodes of a community graph refer to
CliquesOf(h, graph) ==
    [p \in 1..Len(graph) |->
        [associated_clique |->
            Elems(h, h.nodes[graph[p]].associated_clique[1])]]

\* "for _, node := range community_graph { AddNeighbors(...) }" from node g
\* on: gn.AddNeighbor(node) appends to the neighbors of the object gn
RECURSIVE AddNeighborsOnHeap(_, _, _, _)
AddNeighborsOnHeap(h, graph, g, kk) ==
    IF g > Len(graph) THEN h
    ELSE LET found == AddNeighbors(CliquesOf(h, graph), g, kk)
         IN  AddNeighborsOnHeap(
                [h EXCEPT !.nodes[graph[g]].neighbors =
                     @ \o [p \in 1..Len(found) |-> graph[found[p]]]],
                graph, g + 1, kk)

\* CreateCommunityGraph: NewGraphNode allocates a node per clique
CreateCommunityGraphOnHeap(h, list, kk) ==
    IF list = <<>> THEN [heap |-> h, graph |-> <<>>]
    ELSE LET h1 == [h EXCEPT !.nodes = @ \o
                       [p \in 1..Len(list) |->
                           [label |-> CreateLabel(Elems(h, list[p])),
                            neighbors |-> <<>>,
                            associated_clique |-> << list[p] >>]]]
             graph == [p \in 1..Len(list) |-> Len(h.nodes) + p]
         IN  [heap |-> AddNeighborsOnHeap(h1, graph, 1, kk), graph |-> graph]

\* the community graph as the other specifications hold it: neighbours as
\* positions in the graph
PositionIn(graph, a) == CHOOSE p \in 1..Len(graph) : graph[p] = a

CommunityGraphOf(h, graph) ==
    [p \in 1..Len(graph) |->
        [label |-> h.nodes[graph[p]].label,
         neighbors |->
             [q \in 1..Len(h.nodes[graph[p]].neighbors) |->
                 PositionIn(graph, h.nodes[graph[p]].neighbors[q])],
         associated_clique |->
             Elems(h, h.nodes[graph[p]].associated_clique[1])]]

HeapGraphs ==
    LiveGraphs \cup {DirGraph(A, FALSE, 0) : A \in SUBSET DirPairs}

InitHeap ==
    /\ neighbors \in HeapGraphs
    /\ k \in 0..MaxK
    /\ pc = "loop"
    /\ node_idx = 1
    /\ node_list = <<>>
    /\ candidate_list = <<>>
    /\ temp_clique_list = <<>>
    /\ clique_list = <<>>
    /\ community_graph = <<>>
    /\ calls = 0
    /\ query = NoQuery
    /\ file_lines = <<>>
    /\ labels = <<>>
    /\ err = NoError
    /\ anchors = <<>>
    /\ stack = <<>>
    /\ cursor = 1
    /\ heap = GraphHeap(neighbors)
    /\ lists = NoLists

\* one iteration of "for _, node := range graph" on the heap; the lists of
\* nodes are read through the slices after it
HeapLoopBody ==
    /\ pc = "loop"
    /\ node_idx <= Len(neighbors)
    /\ LET node  == node_idx
           cands == GetCliqueCandidatesOnHeap(heap, k,
                                              NeighborsOf(heap, node))
           temp  == IF cands.list # <<>>
                    THEN MakeCliqueListOnHeap(cands.heap, cands.list, 1,
                                              node, <<>>)
                    ELSE [heap |-> cands.heap, list |-> <<>>]
           merged == IF cands.list = <<>> THEN lists.clique_list
                     ELSE IF lists.clique_list = <<>> THEN temp.list
                     ELSE MergeCliquesOnHeap(temp.heap, lists.clique_list,
                                             temp.list)
       IN  /\ heap' = temp.heap
           /\ lists' = [candidate_list   |-> cands.list,
                        temp_clique_list |-> temp.list,
                        clique_list      |-> merged]
           /\ candidate_list' = ElemsOfAll(temp.heap, cands.list)
           /\ temp_clique_list' = ElemsOfAll(temp.heap, temp.list)
           /\ clique_list' = ElemsOfAll(temp.heap, merged)
    /\ node_idx' = node_idx + 1
    /\ UNCHANGED <<neighbors, k, pc, node_list, community_graph, calls, query,
                   file_lines, labels, err, anchors, stack, cursor>>

\* the loop is over: CreateCommunityGraph on the heap
HeapCommunity ==
    /\ pc = "loop"
    /\ node_idx > Len(neighbors)
    /\ LET made == CreateCommunityGraphOnHeap(heap, lists.clique_list, k)
       IN  /\ heap' = made.heap
           /\ community_graph' = CommunityGraphOf(made.heap, made.graph)
    /\ pc' = "done"
    /\ UNCHANGED <<neighbors, k, node_idx, node_list, candidate_list,
                   temp_clique_list, clique_list, calls, query,
                   file_lines, labels, err, anchors, stack, cursor, lists>>

NextHeap == HeapLoopBody \/ HeapCommunity

SpecHeap == InitHeap /\ [][NextHeap]_vars

(***************************************************************************)
(* Properties of the input graph.                                          *)
(***************************************************************************)
Symmetric ==
    \A a, b \in Nodes : b \in Range(neighbors[a]) <=> a \in Range(neighbors[b])

NoSelfLoops == \A a \in Nodes : a \notin Range(neighbors[a])

NoRepeats == \A a \in Nodes : IsInjective(neighbors[a])

Adjacent(a, b) == b \in Range(neighbors[a]) /\ a \in Range(neighbors[b])

\* the sets of k pairwise adjacent nodes of the graph
KCliques ==
    {S \in SUBSET Nodes :
        /\ Cardinality(S) = k
        /\ \A a, b \in S : a # b => Adjacent(a, b)}

LoopDone == pc \in {"loop", "done"} /\ node_idx > Len(neighbors)

(***************************************************************************)
(* C1.  Completeness of clique discovery: for a graph with symmetric       *)
(* neighbour lists, no self-loops and no repeated entries, and k >= 2,     *)
(* once the main loop has processed every node as anchor, every set of k   *)
(* pairwise adjacent nodes is the member set of an entry of clique_list.   *)
(***************************************************************************)
C1_Completeness ==
    (LoopDone /\ Symmetric /\ NoSelfLoops /\ NoRepeats /\ k >= 2)
        => \A S \in KCliques : S \in MemberSets(clique_list)

C1_Witness ==
    /\ LoopDone /\ Symmetric /\ NoSelfLoops /\ NoRepeats
    /\ k = 3
    /\ Cardinality(KCliques) >= 2
    /\ KCliques \subseteq MemberSets(clique_list)

(***************************************************************************)
(* C2.  Clique validity: for a graph with symmetric neighbour lists, every *)
(* clique MakeCliqueList emits for an anchor has k members of which every  *)
(* pair, the pairs with the anchor included, is connected both ways.       *)
(***************************************************************************)
C2_CliqueValidity ==
    Symmetric =>
        \A p \in 1..Len(temp_clique_list) :
            LET c == temp_clique_list[p]
            IN  /\ Len(c) = k
                /\ \A i, j \in 1..Len(c) : i # j => Adjacent(c[i], c[j])

C2_Witness ==
    /\ Symmetric
    /\ k = 4
    /\ pc = "loop"
    /\ Len(candidate_list) > Len(temp_clique_list)
    /\ Len(temp_clique_list) >= 1

(***************************************************************************)
(* C3.  Global dedup: for a graph with symmetric, repetition-free          *)
(* neighbour lists and k >= 2, in every state of the main loop and at its  *)
(* end no two entries of clique_list have the same member set.             *)
(***************************************************************************)
C3_GlobalDedup ==
    (Symmetric /\ NoRepeats /\ k >= 2) => NoDupSets(clique_list)

\* a clique of the merged list was skipped: the list holds its member set
\* in another order
C3_Witness ==
    /\ Symmetric /\ NoRepeats /\ k >= 2
    /\ Len(clique_list) >= 2
    /\ \E p \in 1..Len(temp_clique_list) :
          /\ Range(temp_clique_list[p]) \in MemberSets(clique_list)
          /\ temp_clique_list[p] \notin Range(clique_list)

(***************************************************************************)
(* C10.  Scenario A, the 10-node model graph with k = 3.                   *)
(* As claimed: the final clique list has exactly the member sets           *)
(* {v1,v2,v3}, {v3,v4,v5}, {v4,v5,v6}, {v4,v5,v7}, {v5,v6,v7},             *)
(* {v6,v7,v8}, the community graph has 6 nodes, and {v8,v9,v10} is not a   *)
(* clique of the list.                                                     *)
(***************************************************************************)
ScenarioA == neighbors = ModelGraph /\ k = 3 /\ pc = "done"

RECURSIVE Binomial(_, _)
Binomial(n, r) == IF r = 0 THEN 1
                  ELSE IF n = 0 THEN 0
                  ELSE Binomial(n - 1, r - 1) + Binomial(n - 1, r)

C4_CandidateCorrectness ==
    (pc = "return" /\ IsInjective(node_list) /\ k >= 2
                   /\ Len(node_list) >= k - 1)
        => /\ MemberSets(candidate_list) =
                 {S \in SUBSET Range(node_list) : Cardinality(S) = k - 1}
           /\ Len(candidate_list) = Binomial(Len(node_list), k - 1)
           /\ \A p \in 1..Len(candidate_list) :
                 /\ Len(candidate_list[p]) = k - 1
                 /\ Range(candidate_list[p]) \subseteq Range(node_list)

C4_Witness ==
    /\ pc = "return"
    /\ IsInjective(node_list)
    /\ Len(node_list) = 4
    /\ k = 3
    /\ Len(candidate_list) = 6

(***************************************************************************)
(* C5.  No duplicate candidates: no two candidates of the list returned by *)
(* a call of GetCliqueCandidates have the same member set.  The lists      *)
(* called with are closed under taking suffixes, so the recursive calls    *)
(* are among them.                                                         *)
(***************************************************************************)
C5_NoDuplicateCandidates ==
    pc = "return" => NoDupSets(candidate_list)

\* a list with a repeated node, for which substitutions were rejected
C5_Witness ==
    /\ pc = "return"
    /\ k = 3
    /\ ~IsInjective(node_list)
    /\ Len(candidate_list) >= 3
    /\ Len(candidate_list) < Binomial(Len(node_list), k - 1)

(***************************************************************************)
(* C6.  Community edge correctness: for a deduplicated list of cliques of  *)
(* k distinct members each, in the graph CreateCommunityGraph returns, for *)
(* two distinct community nodes A and B, B is a neighbour of A iff their   *)
(* cliques have exactly k-1 nodes in common.                               *)
(***************************************************************************)
CommonNodes(c1, c2) == Cardinality(Range(c1) \cap Range(c2))

DedupedKCliques(list) ==
    /\ NoDupSets(list)
    /\ \A p \in 1..Len(list) : Len(list[p]) = k /\ IsInjective(list[p])

C6_CommunityEdges ==
    (pc = "return" /\ DedupedKCliques(clique_list))
        => \A a, b \in 1..Len(community_graph) :
              a # b =>
                 (b \in Range(community_graph[a].neighbors)
                    <=> CommonNodes(community_graph[a].associated_clique,
                                    community_graph[b].associated_clique)
                           = k - 1)

C6_Witness ==
    /\ pc = "return"
    /\ DedupedKCliques(clique_list)
    /\ Len(community_graph) = 3
    /\ community_graph[1].neighbors = <<2>>
    /\ community_graph[2].neighbors = <<1, 3>>

(***************************************************************************)
(* C7.  Idempotent merge: for a non-empty list G and a list S, merging S   *)
(* into MergeCliques(G, S) again appends nothing: the sequence of member   *)
(* sets is unchanged by the second merge.                                  *)
(***************************************************************************)
C7_IdempotentMerge ==
    [][(pc = "merged" /\ clique_list # <<>>)
          => SeqOfSets(clique_list') = SeqOfSets(clique_list)]_vars

\* the first merge appended a clique of S, and S was merged a second time
C7_Witness ==
    /\ pc = "merged_again"
    /\ Len(clique_list) > MaxDestLen
    /\ clique_list[Len(clique_list)] \in Range(temp_clique_list)

(***************************************************************************)
(* C8.  Merge with an empty list.  As claimed: MergeCliques with an empty  *)
(* (nil) destination and a non-empty source returns a list whose member    *)
(* sets are those of the source; with a non-empty destination and an       *)
(* empty source it returns the destination unchanged.                      *)
(***************************************************************************)
C8_AsClaimed ==
    [][(pc \in {"merge", "merged"})
          => ( ((clique_list = <<>> /\ temp_clique_list # <<>>)
                  => MemberSets(clique_list') = MemberSets(temp_clique_list))
               /\
               ((clique_list # <<>> /\ temp_clique_list = <<>>)
                  => clique_list' = clique_list) )]_vars

(***************************************************************************)
(* C9.  Direction of the connectivity test.  As claimed: a.IsConnected(b)  *)
(* is true iff b is in the neighbour list stored on a.                     *)
(***************************************************************************)
C9_AsClaimed ==
    query.cn # 0 =>
        (query.result <=> query.sn \in Range(neighbors[query.cn]))

(***************************************************************************)
(* C9, amended.  a.IsConnected(b) is true iff a is in the neighbour list   *)
(* stored on b; the neighbour list of a is not consulted.                  *)
(***************************************************************************)
C9_Direction ==
    query.cn # 0 =>
        (query.result <=> query.cn \in Range(neighbors[query.sn]))

\* the two directions differ and the call has answered
C9_Witness ==
    /\ query.cn # 0
    /\ query.result
    /\ query.sn \notin Range(neighbors[query.cn])

(***************************************************************************)
(* C11.  Scenario B: for the model graph with k = 4 the final clique list  *)
(* has exactly one entry, with the member set {v4,v5,v6,v7}, and the       *)
(* community graph has exactly one node, whose neighbour list is empty.    *)
(***************************************************************************)
ScenarioB == neighbors = ModelGraph /\ k = 4 /\ pc = "done"

C11_ScenarioB ==
    ScenarioB =>
        /\ Len(clique_list) = 1
        /\ MemberSets(clique_list) = {{4, 5, 6, 7}}
        /\ Len(community_graph) = 1
        /\ community_graph[1].neighbors = <<>>

C11_Witness ==
    /\ ScenarioB
    /\ Len(community_graph) = 1
    /\ Range(community_graph[1].associated_clique) = {4, 5, 6, 7}

(***************************************************************************)
(* C13.  Candidate generator edge cases: GetCliqueCandidates returns the   *)
(* empty list whenever k < 2 or the list has fewer than k-1 nodes; for     *)
(* k >= 2 and a list of exactly k-1 nodes it returns exactly one           *)
(* candidate, the list itself in the same order.                           *)
(***************************************************************************)
C13_EdgeCases ==
    pc = "return" =>
        /\ (k < 2 \/ Len(node_list) < k - 1) => candidate_list = <<>>
        /\ (k >= 2 /\ Len(node_list) = k - 1) =>
              /\ Len(candidate_list) = 1
              /\ candidate_list[1] = node_list

\* the base case has answered with a list of two different nodes
C13_Witness ==
    /\ pc = "return"
    /\ k = 3
    /\ Len(node_list) = 2
    /\ node_list[1] > node_list[2]
    /\ candidate_list = <<node_list>>

(***************************************************************************)
(* C14.  Community node construction: CreateCommunityGraph returns one     *)
(* node per entry of the clique list, in list order; the associated        *)
(* clique of node p is entry p, and its label is the labels of the         *)
(* entry's nodes in order, joined by one comma between two labels, with no *)
(* separator before the first or after the last.                           *)
(***************************************************************************)
RECURSIVE JoinedLabels(_)
JoinedLabels(c) ==
    IF Len(c) = 0 THEN ""
    ELSE IF Len(c) = 1 THEN Label(c[1])
    ELSE JoinedLabels(SubSeq(c, 1, Len(c) - 1)) \o "," \o Label(c[Len(c)])

C14_CommunityNodes ==
    pc = "return" =>
        /\ Len(community_graph) = Len(clique_list)
        /\ \A p \in 1..Len(clique_list) :
              /\ community_graph[p].associated_clique = clique_list[p]
              /\ community_graph[p].label = JoinedLabels(clique_list[p])

C14_Witness ==
    /\ pc = "return"
    /\ Len(clique_list) = 2
    /\ clique_list[1] = <<3, 2, 1>>
    /\ community_graph[1].label = "v3,v2,v1"
    /\ community_graph[2].associated_clique = clique_list[2]

(***************************************************************************)
(* C15.  No-clique input.  As claimed: for every graph with symmetric      *)
(* neighbour lists that contains no set of k pairwise adjacent nodes, the  *)
(* clique list is empty after all anchors are processed and the community  *)
(* graph has no nodes.                                                     *)
(***************************************************************************)
C15_AsClaimed ==
    (pc = "done" /\ Symmetric /\ KCliques = {})
        => clique_list = <<>> /\ community_graph = <<>>

(***************************************************************************)
(* C19.  Clique invariant on arbitrary input.  As claimed: whatever the    *)
(* neighbour lists, symmetric or not, every pair of members of a recorded  *)
(* clique is connected in both directions.                                 *)
(***************************************************************************)
C19_AsClaimed ==
    \A p \in 1..Len(clique_list) :
        \A i, j \in 1..Len(clique_list[p]) :
            i # j => /\ clique_list[p][i] \in Range(neighbors[clique_list[p][j]])
                     /\ clique_list[p][j] \in Range(neighbors[clique_list[p][i]])

(***************************************************************************)
(* C20.  Acceptance rule of the verifier: MakeCliqueList emits a clique    *)
(* for a candidate c iff for every i < j, c[i] is in the neighbour list    *)
(* stored on c[j]; the adjacency of the anchor to the members of c is not  *)
(* tested; the clique emitted for c has Len(c) + 1 nodes, those of c in    *)
(* order followed by the anchor.                                           *)
(***************************************************************************)
Accepted(c) ==
    \A j \in 1..Len(c) : \A i \in 1..(j - 1) : c[i] \in Range(neighbors[c[j]])

\* the anchor of the loop iteration that has just been executed
LastAnchor == node_idx - 1

C12_AsClaimed ==
    k < 2 => (pc = "parse" /\ labels = <<>> /\ node_idx = 1)

(***************************************************************************)
(* C16.  Duplicate node label.  As claimed: when two lines of the file     *)
(* declare the same node label, ParseGraphDefFile returns an error and not *)
(* a graph with two nodes of that label.                                   *)
(***************************************************************************)
\* the label a line declares: the word before its colon; <<>> if none
DeclaredLabel(line) ==
    IF node_def_re(line).matched THEN node_def_re(line).label
    ELSE node_no_neighbors_re(line).label

WellFormed(line) == DeclaredLabel(line) # <<>>

DuplicateDeclared ==
    \E i, j \in 1..Len(file_lines) :
        /\ i < j
        /\ WellFormed(file_lines[i])
        /\ DeclaredLabel(file_lines[i]) = DeclaredLabel(file_lines[j])

C16_AsClaimed ==
    (pc # "parse" /\ DuplicateDeclared) =>
        /\ err # NoError
        /\ ~ \E i, j \in 1..Len(labels) : i < j /\ labels[i] = labels[j]

(***************************************************************************)
(* C17.  Undeclared neighbour.  As claimed: for a file whose lines are all *)
(* syntactically valid, ParseGraphDefFile returns an error iff some        *)
(* neighbour label on some line is the label of no node declared anywhere  *)
(* in the file; a label declared on a later line resolves.                 *)
(***************************************************************************)
\* the words of a string: its maximal runs of characters that are no spaces
Words(s) ==
    {SubSeq(s, i, j) : i \in 1..Len(s), j \in 1..Len(s)} \cap
    {w \in UNION {[1..m -> WordChars \cup {":", "-"}] : m \in 1..Len(s)} :
        \E i \in 1..Len(s) :
           /\ i + Len(w) - 1 <= Len(s)
           /\ SubSeq(s, i, i + Len(w) - 1) = w
           /\ (i = 1 \/ IsSpace(s[i - 1]))
           /\ (i + Len(w) - 1 = Len(s) \/ IsSpace(s[i + Len(w)]))}

\* the neighbour labels written on a line, after its label and colon
NeighborLabels(line) ==
    IF node_def_re(line).matched THEN Words(node_def_re(line).neighbors_str)
    ELSE {}

AllWellFormed == \A i \in 1..Len(file_lines) : WellFormed(file_lines[i])

DeclaredLabels == {DeclaredLabel(file_lines[i]) : i \in 1..Len(file_lines)}

UndeclaredNeighbor ==
    \E i \in 1..Len(file_lines) :
        \E w \in NeighborLabels(file_lines[i]) : w \notin DeclaredLabels

C17_AsClaimed ==
    (pc # "parse" /\ AllWellFormed) => (err # NoError <=> UndeclaredNeighbor)

(***************************************************************************)
(* C21.  The community graph is undirected: for a clique list whose        *)
(* cliques have distinct members, in the graph CreateCommunityGraph        *)
(* returns, B is in the neighbour list of A iff A is in the neighbour list *)
(* of B, for any two community nodes A and B.                              *)
(***************************************************************************)
DistinctMembers(list) == \A p \in 1..Len(list) : IsInjective(list[p])

C21_Undirected ==
    (pc = "return" /\ DistinctMembers(clique_list)) =>
        \A a, b \in 1..Len(community_graph) :
            b \in Range(community_graph[a].neighbors)
               <=> a \in Range(community_graph[b].neighbors)

\* two cliques with k-1 common nodes: each is the only neighbour of the other
C21_Witness ==
    /\ pc = "return"
    /\ DistinctMembers(clique_list)
    /\ Len(community_graph) = 2
    /\ Range(clique_list[1]) # Range(clique_list[2])
    /\ community_graph[1].neighbors = <<2>>
    /\ community_graph[2].neighbors = <<1>>

(***************************************************************************)
(* C26.  No self-loops or repeated edges in the community graph: in the    *)
(* graph CreateCommunityGraph returns, no node is in its own neighbour     *)
(* list, no node occurs twice in a neighbour list, and every neighbour is  *)
(* a node of that graph.                                                   *)
(***************************************************************************)
C26_SimpleCommunityGraph ==
    pc = "return" =>
        \A g \in 1..Len(community_graph) :
            /\ g \notin Range(community_graph[g].neighbors)
            /\ IsInjective(community_graph[g].neighbors)
            /\ Range(community_graph[g].neighbors)
                  \subseteq 1..Len(community_graph)

\* the same clique twice and a third one next to it: three nodes, each with
\* the two others as neighbours
C26_Witness ==
    /\ pc = "return"
    /\ Len(community_graph) = 3
    /\ Range(clique_list[1]) = Range(clique_list[2])
    /\ community_graph[1].neighbors = <<2, 3>>
    /\ community_graph[2].neighbors = <<1, 3>>
    /\ community_graph[3].neighbors = <<1, 2>>

(***************************************************************************)
(* C25.  The global clique list only grows at its tail.  As claimed: a     *)
(* step of the main loop leaves the entries the list already has in place  *)
(* and in order, and a merge into a non-empty list G of a list S returns   *)
(* G followed by exactly the entries of S whose member set is neither in G *)
(* nor earlier in S, in the order of S.                                    *)
(***************************************************************************)
IsPrefix(a, b) == Len(a) <= Len(b) /\ SubSeq(b, 1, Len(a)) = a

\* the entries of S from position x on whose member set is new
RECURSIVE FreshEntries(_, _, _)
FreshEntries(G, S, x) ==
    IF x > Len(S) THEN <<>>
    ELSE (IF /\ Range(S[x]) \notin MemberSets(G)
             /\ \A y \in 1..(x - 1) : Range(S[y]) # Range(S[x])
          THEN <<S[x]>> ELSE <<>>)
         \o FreshEntries(G, S, x + 1)

\* the step is a loop iteration that merged temp_clique_list' into the list
MergedInLoop ==
    /\ pc = "loop"
    /\ node_idx' = node_idx + 1
    /\ clique_list # <<>>
    /\ candidate_list' # <<>>

C25_AsClaimed ==
    [][/\ IsPrefix(clique_list, clique_list')
       /\ MergedInLoop =>
             clique_list' =
                clique_list \o FreshEntries(clique_list, temp_clique_list', 1)
      ]_vars

(***************************************************************************)
(* C22.  Anchor-order independence.  As claimed: for a graph with          *)
(* symmetric neighbour lists and k >= 2, the member sets of the final      *)
(* clique list are the same for every order in which the nodes are         *)
(* processed: those of the list the order of the graph gives.              *)
(***************************************************************************)
\* the clique list after the loop over nodes i, i+1, ... in graph order
RECURSIVE LoopFrom(_, _)
LoopFrom(list, i) ==
    IF i > Len(neighbors) THEN list ELSE LoopFrom(LoopBody(list, i), i + 1)

C22_AsClaimed ==
    (pc = "done" /\ Symmetric /\ k >= 2)
        => MemberSets(clique_list) = MemberSets(LoopFrom(<<>>, 1))

(***************************************************************************)
(* C23.  Termination: for every graph and every k, main reaches its        *)
(* return; every recursive call of GetCliqueCandidates is on the list of   *)
(* its caller without its first node, a strictly shorter list; and the     *)
(* loops of an activation range over the list its recursive call returned, *)
(* which the candidates it prepends to the return list do not change.      *)
(***************************************************************************)
ShorterEachCall ==
    \A d \in 2..Len(stack) :
        /\ stack[d].node_list = Tail(stack[d - 1].node_list)
        /\ Len(stack[d].node_list) < Len(stack[d - 1].node_list)

LoopOverReturned ==
    (/\ pc = "candidates"
     /\ Top.at = "loop"
     /\ Len(stack') = Len(stack))
        => /\ stack'[Len(stack)].clique_list = Top.clique_list
           /\ stack'[Len(stack)].x >= Top.x
           /\ stack'[Len(stack)].x <= Len(Top.clique_list) + 1
           /\ \/ stack'[Len(stack)].x > Top.x
              \/ stack'[Len(stack)].i > Top.i

C23_Termination ==
    /\ <>(pc = "done")
    /\ []ShorterEachCall
    /\ [][LoopOverReturned]_vars

C23_Witness ==
    /\ pc = "done"
    /\ Len(neighbors) = 10
    /\ k = 3
    /\ Len(community_graph) = 8

\* the steps of main compute what its procedures compute at once
StepsAgree ==
    /\ pc = "verify" =>
           candidate_list = GetCliqueCandidates(k, neighbors[node_idx])
    /\ (pc = "loop" /\ node_idx > 1 /\ candidate_list # <<>>) =>
           temp_clique_list = MakeCliqueList(candidate_list, node_idx - 1)
    /\ pc \in {"nodes", "edges", "done"} => clique_list = LoopFrom(<<>>, 1)
    /\ pc = "done" => community_graph = CreateCommunityGraph(clique_list, k)

(***************************************************************************)
(* C24.  The original graph is read-only for the core: in every state of   *)
(* main, during the loop and after CreateCommunityGraph, every node of the *)
(* original graph has the label, the neighbour list (content and order)    *)
(* and the absent associated clique it started with, although the          *)
(* base-case candidate is a slice of the neighbors array of the anchor;    *)
(* the nodes that have an associated clique or were given neighbours are   *)
(* the nodes allocated for the community graph.                            *)
(***************************************************************************)
C24_GraphReadOnly ==
    /\ Len(heap.nodes) >= Len(neighbors)
    /\ \A n \in 1..Len(neighbors) :
          /\ heap.nodes[n].label = Label(n)
          /\ heap.nodes[n].neighbors = neighbors[n]
          /\ heap.nodes[n].associated_clique = <<>>
    /\ \A n \in (Len(neighbors) + 1)..Len(heap.nodes) :
          /\ heap.nodes[n].associated_clique # <<>>
          /\ pc = "done"

C24_Witness ==
    /\ pc = "done"
    /\ \E q \in 1..Len(lists.candidate_list) :
          lists.candidate_list[q].node > 0
    /\ \E q \in 1..Len(lists.candidate_list) :
          lists.candidate_list[q].made > 0
    /\ \E n \in (Len(neighbors) + 1)..Len(heap.nodes) :
          heap.nodes[n].neighbors # <<>>

\* main on the heap computes the lists main computes on the nodes themselves
HeapAgrees ==
    /\ node_idx > 1 =>
           candidate_list = GetCliqueCandidates(k, neighbors[node_idx - 1])
    /\ pc = "done" =>
           /\ clique_list = LoopFrom(<<>>, 1)
           /\ community_graph = CreateCommunityGraph(clique_list, k)

TypeOK ==
    /\ pc \in {"loop", "done", "call", "return", "merge", "merged",
             "merged_again", "graph", "parse", "exit", "start",
             "candidates", "verify", "merging", "nodes", "edges"}
    /\ \A p \in 1..Len(clique_list) : Len(clique_list[p]) = k
====
